---- MODULE Spec2Model ----
(***************************************************************************)
(* The anonymization overlay of the viewer: AnonymizationLayerBuilder      *)
(* (web builder, one canvas per page) and AnonymizationLayer (display      *)
(* layer: geometry, painting and the mouse gesture that adds rectangles).  *)
(*                                                                         *)
(* Numbers.  Page-space coordinates and canvas-space rectangles are kept   *)
(* in fixed point with Unit parts per unit, Unit being a common multiple   *)
(* of every scale of the model, so that the division of convertToPdfPoint  *)
(* is exact.  Mouse offsets and canvas sizes are whole canvas pixels.  The *)
(* canvas bitmap is the set of painted cells of side 1/Unit pixel.         *)
(***************************************************************************)
EXTENDS Integers, Sequences, FiniteSets, TLC

\* ------------------------------------------------------------------ bounds
PageW == 3          \* width of the page box, in page units
PageH == 2          \* height of the page box, in page units
MaxRenders == 2     \* number of Builder.render calls of one run
MaxRects == 2       \* no drag starts once the list has this many entries

Null == <<>>        \* null / undefined

Abs(n) == IF n < 0 THEN -n ELSE n
Min(a, b) == IF a < b THEN a ELSE b
Max(a, b) == IF a < b THEN b ELSE a

\* The scales of the viewports, and the least number all of them divide.
Scales == {1, 2}
Unit == CHOOSE u \in 1..100 :
          /\ \A s \in Scales : u % s = 0
          /\ \A k \in 1..(u - 1) : \E s \in Scales : k % s # 0

\* ---------------------------------------------------------------- viewport
\* PageViewport of the viewer: the page box [0, 0, PageW, PageH] seen at a
\* scale and a rotation; dontFlip leaves the y axis pointing as in the page.
Rotations == {0, 90, 180, 270}

PageViewport(scale, rotation, dontFlip) ==
    [scale |-> scale, rotation |-> rotation, dontFlip |-> dontFlip]

clone(viewport, dontFlip) == [viewport EXCEPT !.dontFlip = dontFlip]

rotateA(v) == CASE v.rotation = 180 -> -1 [] v.rotation = 90 -> 0
                [] v.rotation = 270 -> 0 [] OTHER -> 1
rotateB(v) == CASE v.rotation = 180 -> 0 [] v.rotation = 90 -> 1
                [] v.rotation = 270 -> -1 [] OTHER -> 0
rotateC(v) == (CASE v.rotation = 180 -> 0 [] v.rotation = 90 -> 1
                [] v.rotation = 270 -> -1 [] OTHER -> 0)
              * (IF v.dontFlip THEN -1 ELSE 1)
rotateD(v) == (CASE v.rotation = 180 -> 1 [] v.rotation = 90 -> 0
                [] v.rotation = 270 -> 0 [] OTHER -> -1)
              * (IF v.dontFlip THEN -1 ELSE 1)

width(v) == IF rotateA(v) = 0 THEN PageH * v.scale ELSE PageW * v.scale
height(v) == IF rotateA(v) = 0 THEN PageW * v.scale ELSE PageH * v.scale

\* The six numbers of the page-to-canvas transform.  The centre of the page
\* box is (PageW / 2, PageH / 2); the sums below are kept doubled and halved
\* at the end, the halved number being whole for every rotation.
transform(v) ==
    LET s == v.scale
        offsetCanvasX2 == (IF rotateA(v) = 0 THEN PageH ELSE PageW) * s
        offsetCanvasY2 == (IF rotateA(v) = 0 THEN PageW ELSE PageH) * s
    IN  << rotateA(v) * s, rotateB(v) * s, rotateC(v) * s, rotateD(v) * s,
           (offsetCanvasX2 - rotateA(v) * s * PageW - rotateC(v) * s * PageH) \div 2,
           (offsetCanvasY2 - rotateB(v) * s * PageW - rotateD(v) * s * PageH) \div 2 >>

\* Util.applyTransform on a page point held in 1/Unit parts: a canvas point
\* in 1/Unit parts.
convertToViewportPoint(v, x, y) ==
    LET m == transform(v)
    IN  << x * m[1] + y * m[3] + m[5] * Unit,
           x * m[2] + y * m[4] + m[6] * Unit >>

\* Util.applyInverseTransform on a canvas point in whole pixels: the page
\* point in 1/Unit parts (the determinant is +-scale^2 and divides exactly).
convertToPdfPoint(v, x, y) ==
    LET m == transform(v)
        d == m[1] * m[4] - m[2] * m[3]
    IN  << (Unit * (x * m[4] - y * m[3] + m[3] * m[6] - m[5] * m[4])) \div d,
           (Unit * (-x * m[2] + y * m[1] + m[5] * m[2] - m[6] * m[1])) \div d >>

\* -------------------------------------------------------------- rectangles
\* A rectangle {x0, y0, x1, y1} of the list is the tuple <<x0, y0, x1, y1>>.
Rect(x0, y0, x1, y1) == <<x0, y0, x1, y1>>

\* As createRectangle, passing the offsets on without turning y upside down.
createRectangleUnflipped(viewport, e, mouseEvent) ==
    LET point0 == convertToPdfPoint(viewport, e[1], e[2])
        point1 == convertToPdfPoint(viewport, mouseEvent[1], mouseEvent[2])
    IN  Rect(point0[1], point0[2], point1[1], point1[2])

\* createRectangle: the closure made by mousedown at e, applied to a later
\* mouse event.
createRectangle(viewport, e, mouseEvent) ==
    LET point0 == convertToPdfPoint(viewport, e[1], height(viewport) - e[2])
        point1 == convertToPdfPoint(viewport, mouseEvent[1],
                                    height(viewport) - mouseEvent[2])
    IN  Rect(point0[1], point0[2], point1[1], point1[2])

\* AnonymizationElementFactory.create: the canvas rectangle
\* [x, y, width, height] (1/Unit parts) that the element fills and clears.
create(rectangle, viewport) ==
    LET viewPortX == convertToViewportPoint(viewport, rectangle[1], rectangle[2])
        viewPortY == convertToViewportPoint(viewport, rectangle[3], rectangle[4])
        h == height(viewport) * Unit
    IN  << viewPortX[1],
           Abs(viewPortX[2] - h),
           viewPortY[1] - viewPortX[1],
           Abs(viewPortY[2] - h) - Abs(viewPortX[2] - h) >>

\* The cells of a w x h pixel bitmap that fillRect / clearRect of the canvas
\* rectangle r touch: the rectangle spans x..x+w and y..y+h whatever the
\* signs of w and h, is clipped to the bitmap, and is empty when w or h is 0.
Cells(r, w, h) ==
    { c \in (Max(0, Min(r[1], r[1] + r[3])) .. (Min(w * Unit, Max(r[1], r[1] + r[3])) - 1))
            \X (Max(0, Min(r[2], r[2] + r[4])) .. (Min(h * Unit, Max(r[2], r[2] + r[4])) - 1))
        : TRUE }

\* ------------------------------------------------------------------- state
VARIABLES
    rectangles,   \* the caller's list, shared by builder, layer and handlers
    canvas,       \* builder.canvas: 0 (null) or the number of its element
    _cancelled,   \* builder._cancelled
    el,           \* the canvas element: width, height, hidden, painted cells
    pageDiv,      \* children appended to the page container, in order
    created,      \* number of canvas elements created so far
    listeners,    \* one closure per registerCanvasEvents call on the canvas
    pending,      \* renders whose annotation fetch is still in flight
    issued,       \* number of Builder.render calls so far
    latest,       \* <<viewport>> of the latest Builder.render call, <<>> before
    ops,          \* what the last step did to the list and the DOM, in order
    last,         \* the last step: operation, mouse offset, whether it threw
    trip          \* one gesture taken through createRectangle and create

vars == <<rectangles, canvas, _cancelled, el, pageDiv, created, listeners,
          pending, issued, latest, ops, last, trip>>

NoCanvas == 0

Op(name, rect) == [op |-> name, rect |-> rect]

\* A handler works on a record w with the canvas element el, the shared list
\* rectangles, the log ops of what it did so far and whether it threw.
Log(w, name, rect) == [w EXCEPT !.ops = Append(@, Op(name, rect))]

\* ctx.fillRect and ctx.clearRect of an element made by create.
fillRect(w, r) ==
    Log([w EXCEPT !.el.pixels = @ \cup Cells(r, w.el.width, w.el.height)],
        "fillRect", r)

clearRect(w, r) ==
    Log([w EXCEPT !.el.pixels = @ \ Cells(r, w.el.width, w.el.height)],
        "clearRect", r)

\* rectangleFactory of Layer.render is the closure over its viewport: the
\* one-element tuple <<viewport>>; a missing argument (undefined) is <<>>.
rectangleFactory(viewport) == <<viewport>>

\* As renderFrom, leaving the loop at the first null entry.
RECURSIVE renderFromBreak(_, _, _)
renderFromBreak(i, factory, w) ==
    IF i > Len(w.rectangles) THEN w
    ELSE IF w.rectangles[i] = Null THEN w
    ELSE IF factory = <<>> THEN [w EXCEPT !.threw = TRUE]
    ELSE renderFromBreak(i + 1, factory,
                         fillRect(w, create(w.rectangles[i], factory[1])))

\* AnonymizationLayer.renderRectangles: the loop from entry i on.  Calling
\* an undefined factory throws, which ends the loop and the caller.
RECURSIVE renderFrom(_, _, _)
renderFrom(i, factory, w) ==
    IF i > Len(w.rectangles) THEN w
    ELSE IF w.rectangles[i] = Null THEN renderFrom(i + 1, factory, w)
    ELSE IF factory = <<>> THEN [w EXCEPT !.threw = TRUE]
    ELSE renderFrom(i + 1, factory,
                    fillRect(w, create(w.rectangles[i], factory[1])))

renderRectangles(factory, w) == renderFrom(1, factory, w)

\* ------------------------------------------------- layer: the mouse gesture
\* The closure state of one registerCanvasEvents call: painting, the
\* mousedown event e that createRectangle captured (Null while
\* createRectangle is null), the preview element rectangle (its canvas
\* rectangle, or Null), and the viewport and factory it was called with.
Closure(viewport) ==
    [painting |-> FALSE, e |-> Null, rectangle |-> Null, viewport |-> viewport]

\* rerender: renderRectangles on the parameters and factory of Layer.render.
rerender(c, w) == renderRectangles(rectangleFactory(c.viewport), w)

\* As mousedown, taking the anchor whether or not a gesture is under way.
mousedownAlways(c, w, e) ==
    [c |-> [c EXCEPT !.e = e, !.painting = TRUE], w |-> w]

mousedown(c, w, e) ==
    [c |-> IF ~c.painting THEN [c EXCEPT !.e = e, !.painting = TRUE] ELSE c,
     w |-> w]

\* As mouseup, without the repaint.
mouseupNoRerender(c, w, e) ==
    IF c.painting
    THEN LET rectangle == createRectangle(c.viewport, c.e, e)
         IN  [c |-> [c EXCEPT !.painting = FALSE],
              w |-> Log([w EXCEPT !.rectangles = Append(@, rectangle)],
                        "push", rectangle)]
    ELSE [c |-> c, w |-> w]

\* As mouseup, putting the new rectangle at the head of the list.
mouseupUnshift(c, w, e) ==
    IF c.painting
    THEN LET rectangle == createRectangle(c.viewport, c.e, e)
             pushed == Log([w EXCEPT !.rectangles = <<rectangle>> \o @],
                           "push", rectangle)
         IN  [c |-> [c EXCEPT !.painting = FALSE], w |-> rerender(c, pushed)]
    ELSE [c |-> c, w |-> w]

mouseup(c, w, e) ==
    IF c.painting
    THEN LET rectangle == createRectangle(c.viewport, c.e, e)
             pushed == Log([w EXCEPT !.rectangles = Append(@, rectangle)],
                           "push", rectangle)
         IN  [c |-> [c EXCEPT !.painting = FALSE], w |-> rerender(c, pushed)]
    ELSE [c |-> c, w |-> w]

\* As mousemove, painting the new preview without clearing the previous one.
mousemoveNoClear(c, w, e) ==
    IF c.painting
    THEN LET rectangle == create(createRectangle(c.viewport, c.e, e), c.viewport)
         IN  [c |-> [c EXCEPT !.rectangle = rectangle],
              w |-> fillRect(w, rectangle)]
    ELSE [c |-> c, w |-> w]

mousemove(c, w, e) ==
    LET s == IF c.rectangle # Null
             THEN [c |-> [c EXCEPT !.rectangle = Null],
                   w |-> rerender(c, clearRect(w, c.rectangle))]
             ELSE [c |-> c, w |-> w]
    IN  IF s.c.painting
        THEN LET rectangle == create(createRectangle(c.viewport, c.e, e), c.viewport)
             IN  [c |-> [s.c EXCEPT !.rectangle = rectangle],
                  w |-> fillRect(s.w, rectangle)]
        ELSE s

handle(kind, c, w, e) ==
    CASE kind = "mousedown" -> mousedown(c, w, e)
      [] kind = "mouseup" -> mouseup(c, w, e)
      [] OTHER -> mousemove(c, w, e)

\* The canvas dispatches an event to its listeners in the order they were
\* added: listener i and the ones after it, on the closures cs and world w.
RECURSIVE dispatch(_, _, _, _, _)
dispatch(kind, i, cs, w, e) ==
    IF i > Len(cs) THEN [w EXCEPT !.listeners = cs]
    ELSE LET r == handle(kind, cs[i], w, e)
         IN  dispatch(kind, i + 1, [cs EXCEPT ![i] = r.c], r.w, e)

\* ------------------------------------------------------------------- layer
\* registerCanvasEvents: one more closure listening on the canvas.
registerCanvasEvents(b, viewport) ==
    Log([b EXCEPT !.listeners = Append(@, Closure(viewport))],
        "addEventListener", Null)

\* AnonymizationLayer.render: paint the list, then install the handlers.
LayerRender(b, viewport) ==
    registerCanvasEvents(
        renderRectangles(rectangleFactory(viewport), b), viewport)

\* AnonymizationLayer.update: renderRectangles is called without a factory;
\* the hidden attribute is removed only if that call returns.
LayerUpdate(b, viewport) ==
    LET r == renderRectangles(<<>>, b)
    IN  IF r.threw THEN r
        ELSE Log([r EXCEPT !.el.hidden = FALSE], "removeAttribute", Null)

\* ----------------------------------------------------------------- builder
\* A canvas element as document.createElement('canvas') returns it, before
\* it is sized.
NewCanvas == [width |-> 0, height |-> 0, hidden |-> FALSE, pixels |-> {}]

\* The builder, its canvas element and whatever a handler can touch, as one
\* record b: the fields of World, and canvas, _cancelled, pageDiv, created,
\* listeners.
Builder ==
    [el |-> el, rectangles |-> rectangles, ops |-> <<>>, threw |-> FALSE,
     canvas |-> canvas, _cancelled |-> _cancelled, pageDiv |-> pageDiv,
     created |-> created, listeners |-> listeners]

\* updateCanvas: setting width or height of a canvas resets its bitmap.  The
\* style width and height copy the page container's, which never change here.
updateCanvas(b, viewport) ==
    Log([b EXCEPT !.el.width = width(viewport),
                  !.el.height = height(viewport),
                  !.el.pixels = {}],
        "updateCanvas", <<width(viewport), height(viewport)>>)

\* As updateLayer, calling Layer.render on the canvas the builder has.
updateLayerRenders(b, viewport) ==
    LET parameters == [viewport |-> clone(viewport, TRUE)]
    IN  LayerRender(updateCanvas(b, viewport), parameters.viewport)

\* The branch of the callback for a builder that has a canvas.
updateLayer(b, viewport) ==
    LET parameters == [viewport |-> clone(viewport, TRUE)]
    IN  LayerUpdate(updateCanvas(b, viewport), parameters.viewport)

\* The branch of the callback for a builder without a canvas: a new canvas
\* element, which has no listener yet.
createLayer(b, viewport) ==
    LET parameters == [viewport |-> clone(viewport, TRUE)]
        made == Log([b EXCEPT !.canvas = b.created + 1,
                              !.created = @ + 1,
                              !.el = NewCanvas,
                              !.listeners = <<>>],
                    "createElement", Null)
        sized == updateCanvas(made, viewport)
        appended == Log([sized EXCEPT !.pageDiv = Append(@, sized.canvas)],
                        "appendChild", Null)
    IN  Log(LayerRender(appended, parameters.viewport), "translate", Null)

\* As renderLayer, never looking at this.canvas.
renderLayerAlwaysCreates(b, viewport) == createLayer(b, viewport)

\* The callback past its cancellation check.
renderLayer(b, viewport) ==
    IF b.canvas # NoCanvas THEN updateLayer(b, viewport)
    ELSE createLayer(b, viewport)

\* As onFulfilled, without the cancellation check.
onFulfilledUnchecked(b, viewport) == renderLayer(b, viewport)

\* The callback Builder.render passes to then(): runs when the annotation
\* fetch of a render(viewport) call is fulfilled.
onFulfilled(b, viewport) ==
    IF b._cancelled THEN b ELSE renderLayer(b, viewport)

\* As onRejected, had the callback been given to then() for both outcomes.
onRejectedRuns(b, viewport) == onFulfilled(b, viewport)

\* then() is given no rejection callback: a rejected fetch runs nothing.
onRejected(b, viewport) == b

cancel(b) == [b EXCEPT !._cancelled = TRUE]

\* As hide, without the check for a canvas.
hideUnchecked(b) == Log([b EXCEPT !.el.hidden = TRUE], "setAttribute", Null)

hide(b) ==
    IF b.canvas = NoCanvas THEN b
    ELSE Log([b EXCEPT !.el.hidden = TRUE], "setAttribute", Null)

\* ----------------------------------------------------------------- actions
\* Inputs of the runs: the viewports passed to render, the mouse offsets,
\* the lists a builder is constructed with.
RenderViewports == { PageViewport(1, 0, FALSE), PageViewport(2, 90, FALSE) }

DownPoints == { <<0, 0>>, <<1, 1>> }
MovePoints == { <<1, 1>>, <<2, 2>> }
UpPoints == { <<1, 1>> }

InitLists ==
    { <<>>,
      << Rect(0, 0, Unit, Unit) >>,
      << Null, Rect(Unit, 2 * Unit, 3 * Unit, 0) >> }

Step(name, pt, threw) == [op |-> name, pt |-> pt, threw |-> threw]

\* The state after a handler left b.
Commit(b) ==
    /\ rectangles' = b.rectangles
    /\ canvas' = b.canvas
    /\ _cancelled' = b._cancelled
    /\ el' = b.el
    /\ pageDiv' = b.pageDiv
    /\ created' = b.created
    /\ listeners' = b.listeners
    /\ ops' = b.ops
    /\ UNCHANGED trip

\* A gesture not yet taken anywhere.
NoTrip ==
    [stage |-> "none", viewport |-> PageViewport(1, 0, TRUE), p |-> <<0, 0>>,
     q |-> <<0, 0>>, rectangle |-> Null, viewportRectangle |-> Null]

Constructed(lists) ==
    /\ rectangles \in lists
    /\ canvas = NoCanvas
    /\ _cancelled = FALSE
    /\ el = NewCanvas
    /\ pageDiv = <<>>
    /\ created = 0
    /\ listeners = <<>>
    /\ pending = {}
    /\ issued = 0
    /\ latest = <<>>
    /\ ops = <<>>
    /\ last = Step("new", Null, FALSE)

Init == Constructed(InitLists) /\ trip = NoTrip

\* Builder.render(viewport): starts the annotation fetch and returns.
Render(viewport) ==
    /\ issued < MaxRenders
    /\ issued' = issued + 1
    /\ latest' = <<viewport>>
    /\ pending' = pending \cup {[id |-> issued + 1, viewport |-> viewport]}
    /\ \E b \in {Builder} : Commit(b)
    /\ last' = Step("render", Null, FALSE)

\* The annotation fetch of render r is fulfilled.
Fulfil(r) ==
    \E b \in {onFulfilled(Builder, r.viewport)} :
        /\ pending' = pending \ {r}
        /\ Commit(b)
        /\ last' = Step("fulfil", Null, b.threw)
        /\ UNCHANGED <<issued, latest>>

\* The annotation fetch of render r is rejected.
Reject(r) ==
    \E b \in {onRejected(Builder, r.viewport)} :
        /\ pending' = pending \ {r}
        /\ Commit(b)
        /\ last' = Step("reject", Null, b.threw)
        /\ UNCHANGED <<issued, latest>>

Cancel ==
    /\ \E b \in {cancel(Builder)} : Commit(b)
    /\ last' = Step("cancel", Null, FALSE)
    /\ UNCHANGED <<pending, issued, latest>>

Hide ==
    /\ \E b \in {hide(Builder)} : Commit(b)
    /\ last' = Step("hide", Null, FALSE)
    /\ UNCHANGED <<pending, issued, latest>>

\* A mouse event on the canvas at offset e, delivered to every listener: the
\* canvas is in the page, is not hidden (a hidden element gets no mouse
\* event), and e lies on it.
Mouse(kind, e) ==
    /\ canvas # NoCanvas
    /\ ~el.hidden
    /\ e[1] <= el.width /\ e[2] <= el.height
    /\ kind = "mousedown" => Len(rectangles) < MaxRects
    /\ \E b \in {dispatch(kind, 1, listeners, Builder, e)} :
           /\ Commit(b)
           /\ last' = Step(kind, e, b.threw)
    /\ UNCHANGED <<pending, issued, latest>>

\* The three events the layer listens to.
MouseDown(e) == Mouse("mousedown", e)
MouseMove(e) == Mouse("mousemove", e)
MouseUp(e) == Mouse("mouseup", e)

Next ==
    \/ \E v \in RenderViewports : Render(v)
    \/ \E r \in pending : Fulfil(r)
    \/ \E r \in pending : Reject(r)
    \/ Cancel
    \/ Hide
    \/ \E e \in DownPoints : MouseDown(e)
    \/ \E e \in MovePoints : MouseMove(e)
    \/ \E e \in UpPoints : MouseUp(e)

Spec == Init /\ [][Next]_vars

\* The same builder when every annotation fetch is fulfilled.
FulfilledNext ==
    \/ \E v \in RenderViewports : Render(v)
    \/ \E r \in pending : Fulfil(r)
    \/ Cancel
    \/ Hide
    \/ \E e \in DownPoints : MouseDown(e)
    \/ \E e \in MovePoints : MouseMove(e)
    \/ \E e \in UpPoints : MouseUp(e)

FulfilledSpec == Init /\ [][FulfilledNext]_vars

\* ------------------------------------------------- the geometry on its own
\* createRectangle and create applied to every viewport and every pair of
\* mouse offsets on its canvas: mousedown at p, mouseup or mousemove at q.
AllViewports ==
    { PageViewport(s, r, f) : s \in Scales, r \in Rotations, f \in BOOLEAN }

Offsets(viewport) == (0 .. width(viewport)) \X (0 .. height(viewport))

\* Corners of rectangles a caller may put in the list: page points (1/Unit
\* parts) on the page box and one unit above and below it.
PageCorners ==
    { <<Unit * x, Unit * y>> : x \in 0..PageW, y \in (0 - 1)..(PageH + 1) }

TripInit ==
    /\ Constructed({<<>>})
    /\ \/ \E v \in AllViewports : \E p \in Offsets(v) : \E q \in Offsets(v) :
              trip = [NoTrip EXCEPT !.stage = "down", !.viewport = v,
                                    !.p = p, !.q = q]
       \/ \E v \in AllViewports : \E c0 \in PageCorners : \E c1 \in PageCorners :
              trip = [NoTrip EXCEPT !.stage = "listed", !.viewport = v,
                         !.rectangle = Rect(c0[1], c0[2], c1[1], c1[2])]

TripRectangle ==
    /\ trip.stage = "down"
    /\ trip' = [trip EXCEPT
                  !.stage = "rectangle",
                  !.rectangle = createRectangle(trip.viewport, trip.p, trip.q)]
    /\ UNCHANGED <<rectangles, canvas, _cancelled, el, pageDiv, created,
                   listeners, pending, issued, latest, ops, last>>

TripElement ==
    /\ trip.stage = "rectangle"
    /\ trip' = [trip EXCEPT
                  !.stage = "element",
                  !.viewportRectangle = create(trip.rectangle, trip.viewport)]
    /\ UNCHANGED <<rectangles, canvas, _cancelled, el, pageDiv, created,
                   listeners, pending, issued, latest, ops, last>>

\* create applied to a rectangle that was in the list from the start.
TripDraw ==
    /\ trip.stage = "listed"
    /\ trip' = [trip EXCEPT
                  !.stage = "drawn",
                  !.viewportRectangle = create(trip.rectangle, trip.viewport)]
    /\ UNCHANGED <<rectangles, canvas, _cancelled, el, pageDiv, created,
                   listeners, pending, issued, latest, ops, last>>

TripNext == TripRectangle \/ TripElement \/ TripDraw

TripSpec == TripInit /\ [][TripNext]_vars

\* ------------------------------------------------------------------ claims
NonNull(list) == SelectSeq(list, LAMBDA r : r # Null)

Painting == { i \in 1..Len(listeners) : listeners[i].painting }

\* The render whose fetch this step resolved.
Resolved == CHOOSE r \in pending : r \notin pending'

\* The cells the non-null rectangles of the list cover on the canvas when
\* they are drawn through the given viewport.
ListCells(viewport) ==
    UNION { Cells(create(rectangles[i], viewport), el.width, el.height) :
              i \in { j \in 1..Len(rectangles) : rectangles[j] # Null } }

\* C1: a mouseup received while painting appends exactly one rectangle, the
\* one built from the anchor of the gesture and the release point (a
\* zero-size one included), then repaints every non-null rectangle of the
\* list, the new one included, in list order, and leaves the gesture idle.
C1_MouseUpAppendsRepaintsAndIdles ==
    [][ (last'.op = "mouseup" /\ Painting # {}) =>
          LET c == listeners[CHOOSE i \in Painting : TRUE]
              new == createRectangle(c.viewport, c.e, last'.pt)
              all == NonNull(rectangles')
          IN  /\ rectangles' = Append(rectangles, new)
              /\ Len(ops') = 1 + Len(all)
              /\ ops'[1] = Op("push", new)
              /\ \A k \in 1..Len(all) :
                    ops'[k + 1] = Op("fillRect", create(all[k], c.viewport))
              /\ \A k \in 1..Len(all) :
                    Cells(create(all[k], c.viewport), el'.width, el'.height)
                        \subseteq el'.pixels
              /\ \A i \in 1..Len(listeners') : ~listeners'[i].painting
      ]_vars

\* C1 witness: a zero-size drag has just been released on a list that already
\* held a rectangle; both are in the list and were painted.
C1_Witness ==
    /\ last.op = "mouseup"
    /\ Len(rectangles) >= 2
    /\ Len(ops) >= 3
    /\ ops[1].op = "push"
    /\ ops[1].rect = rectangles[Len(rectangles)]
    /\ ops[1].rect[1] = ops[1].rect[3] /\ ops[1].rect[2] = ops[1].rect[4]
    /\ ops[Len(ops)].op = "fillRect"
    /\ \A i \in 1..Len(listeners) : ~listeners[i].painting

\* C2: a render whose fetch is fulfilled after cancel() does nothing at all:
\* no canvas is created, resized or appended, nothing is painted, no handler
\* is installed, no localization is requested; and a builder cancelled while
\* it has no canvas never gets one.
C2_CancelledRenderIsDropped ==
    [][ /\ (last'.op = "fulfil" /\ _cancelled) =>
              /\ UNCHANGED <<rectangles, canvas, _cancelled, el, pageDiv,
                             created, listeners>>
              /\ ops' = <<>>
              /\ ~last'.threw
        /\ (_cancelled /\ canvas = NoCanvas) => canvas' = NoCanvas
      ]_vars

\* C2 witness: the only render of a builder cancelled before its fetch was
\* fulfilled has been resolved, and there is no canvas.
C2_Witness ==
    /\ last.op = "fulfil"
    /\ _cancelled
    /\ issued = 1 /\ pending = {}
    /\ canvas = NoCanvas /\ created = 0 /\ pageDiv = <<>>

\* C3: after the overlay is rendered and any sequence of mousedown,
\* mousemove and mouseup, whenever the gesture is idle the painted cells of
\* the canvas are exactly the cells of the non-null rectangles of the list.
C3_ListAndCanvasConsistent ==
    (/\ issued = 1 /\ pending = {}
     /\ listeners # <<>>
     /\ Painting = {})
    => el.pixels = ListCells(listeners[1].viewport)

\* C4: a render fulfilled, not cancelled, on a builder whose canvas is
\* hidden (the update path) paints every non-null rectangle of the list on
\* the resized canvas and removes the hidden attribute, whatever the list.
C4_UpdateRepaintsAndReveals ==
    [][ (/\ last'.op = "fulfil" /\ ~_cancelled
         /\ canvas # NoCanvas /\ el.hidden) =>
          LET viewport == clone(Resolved.viewport, TRUE)
              all == NonNull(rectangles)
          IN  /\ ~el'.hidden
              /\ \A k \in 1..Len(all) :
                    /\ \E j \in 1..Len(ops') :
                          ops'[j] = Op("fillRect", create(all[k], viewport))
                    /\ Cells(create(all[k], viewport), el'.width, el'.height)
                          \subseteq el'.pixels
      ]_vars

C6_IdleMouseMoveIsNoOp ==
    [][ (last'.op = "mousemove" /\ Painting = {}) =>
          /\ ops' = <<>>
          /\ UNCHANGED <<listeners, rectangles, el>>
      ]_vars

\* C7: a builder has at most one canvas.  builder.canvas is null until a
\* fulfilled, non-cancelled render creates the canvas and appends it once;
\* with a canvas, such a render keeps it and sizes it to its viewport and
\* nothing is created or appended again; hide() keeps builder.canvas and
\* marks the canvas hidden.
C7_OneCanvasPerBuilder ==
    [][ /\ created' <= 1
        /\ Len(pageDiv') = created'
        /\ (canvas' = NoCanvas) <=> (created' = 0)
        /\ (canvas = NoCanvas /\ canvas' # NoCanvas) =>
              /\ last'.op = "fulfil" /\ ~_cancelled
              /\ pageDiv' = <<canvas'>>
        /\ (last'.op = "fulfil" /\ ~_cancelled) =>
              /\ canvas' # NoCanvas
              /\ el'.width = width(Resolved.viewport)
              /\ el'.height = height(Resolved.viewport)
        /\ canvas # NoCanvas =>
              /\ canvas' = canvas
              /\ pageDiv' = pageDiv
              /\ created' = created
        /\ last'.op = "hide" =>
              /\ canvas' = canvas
              /\ canvas # NoCanvas => el'.hidden
      ]_vars

\* C7 witness: two renders were in flight before the canvas existed; the
\* second one fulfilled has just resized the canvas the first one created.
C7_Witness ==
    /\ last.op = "fulfil"
    /\ issued = 2 /\ pending = {}
    /\ created = 1 /\ canvas = 1 /\ pageDiv = <<1>>
    /\ ops # <<>> /\ ops[1].op = "updateCanvas"
    /\ listeners[1].viewport = PageViewport(2, 90, TRUE)
    /\ el.width = width(PageViewport(1, 0, FALSE))
    /\ el.height = height(PageViewport(1, 0, FALSE))

\* C8: hide() without a canvas changes nothing and raises nothing; with a
\* canvas it marks the canvas hidden and changes nothing else.
C8_HideOnlyMarksAnExistingCanvas ==
    [][ last'.op = "hide" =>
          /\ ~last'.threw
          /\ UNCHANGED <<rectangles, canvas, _cancelled, pageDiv, created,
                         listeners, pending, issued>>
          /\ IF canvas = NoCanvas
             THEN el' = el /\ ops' = <<>>
             ELSE el' = [el EXCEPT !.hidden = TRUE]
      ]_vars

\* C8 witness: hide() has been called on a builder whose every render was
\* dropped by cancel(), so that it has no canvas.
C8_Witness ==
    /\ last.op = "hide"
    /\ canvas = NoCanvas
    /\ _cancelled /\ issued > 0 /\ pending = {}
    /\ ops = <<>>
    /\ el = NewCanvas

\* C9: a render whose fetch is rejected changes nothing of the builder, the
\* canvas, the list or the gesture, and a render fulfilled in any state,
\* after a rejection too, still creates or resizes the canvas.
C9_RejectedRenderChangesNothing ==
    [][ /\ last'.op = "reject" =>
              /\ UNCHANGED <<rectangles, canvas, _cancelled, el, pageDiv,
                             created, listeners>>
              /\ ops' = <<>>
        /\ (last'.op = "fulfil" /\ ~_cancelled) =>
              /\ canvas' # NoCanvas
              /\ el'.width = width(Resolved.viewport)
              /\ el'.height = height(Resolved.viewport)
              /\ ops' # <<>>
      ]_vars

\* C9 witness: of two renders the first resolved was rejected (no canvas
\* came of it) and the second, fulfilled, has just created the canvas.
C9_Witness ==
    /\ last.op = "fulfil"
    /\ ~_cancelled
    /\ issued = 2 /\ pending = {}
    /\ created = 1 /\ canvas # NoCanvas
    /\ ops # <<>> /\ ops[1].op = "createElement"

\* C10: for every viewport and mouse offsets p and q on its canvas, the
\* rectangle createRectangle makes of p and q, taken back by create through
\* the same viewport, is the canvas rectangle
\* [p.x, p.y, q.x - p.x, q.y - p.y].
C10_RoundTripThroughOneViewport ==
    trip.stage = "element" =>
        trip.viewportRectangle =
            << Unit * trip.p[1], Unit * trip.p[2],
               Unit * (trip.q[1] - trip.p[1]), Unit * (trip.q[2] - trip.p[2]) >>

\* C10 witness: a drag up and to the left on a rotated, scaled viewport has
\* been taken to page space and back.
C10_Witness ==
    /\ trip.stage = "element"
    /\ trip.viewport = PageViewport(2, 90, TRUE)
    /\ trip.p = <<3, 5>> /\ trip.q = <<1, 2>>
    /\ trip.viewportRectangle = << 3 * Unit, 5 * Unit, -2 * Unit, -3 * Unit >>

\* C11: for every viewport and every rectangle (x0,y0)-(x1,y1) of the list,
\* corners above and below the page box included, the canvas rectangle
\* [x, y, width, height] that create computes has |width * height| equal to
\* |x1 - x0| * |y1 - y0| times the square of the viewport's scale.
C11_AreaScalesWithViewport ==
    trip.stage \in {"element", "drawn"} =>
        Abs(trip.viewportRectangle[3] * trip.viewportRectangle[4]) =
            Abs(trip.rectangle[3] - trip.rectangle[1])
              * Abs(trip.rectangle[4] - trip.rectangle[2])
              * trip.viewport.scale * trip.viewport.scale

\* The cells of the previews the gestures hold.
PreviewCells ==
    UNION { Cells(listeners[i].rectangle, el.width, el.height) :
              i \in { j \in 1..Len(listeners) : listeners[j].rectangle # Null } }

\* Nothing is painted on the canvas but rectangles of the list and the one
\* preview the gesture holds.
OnePreview ==
    listeners # <<>> =>
        /\ Len(listeners) = 1
        /\ el.pixels \cup ListCells(listeners[1].viewport) \cup PreviewCells
              = ListCells(listeners[1].viewport) \cup PreviewCells

\* C12: a mousemove received while painting clears the previous preview if
\* there is one, then repaints every non-null rectangle of the list, then
\* paints the new preview, the canvas rectangle from the anchor to the
\* pointer, and keeps it as the preview; without a previous preview it only
\* paints the new one.  In every state no preview but the current one is
\* painted on the canvas.
C12_MouseMovePaintsOnePreview ==
    /\ []OnePreview
    /\ [][ (last'.op = "mousemove" /\ Painting # {}) =>
                 LET i == CHOOSE j \in Painting : TRUE
                     c == listeners[i]
                     new == create(createRectangle(c.viewport, c.e, last'.pt),
                                   c.viewport)
                     all == NonNull(rectangles)
                 IN  /\ listeners'[i] = [c EXCEPT !.rectangle = new]
                     /\ rectangles' = rectangles
                     /\ Cells(new, el.width, el.height) \subseteq el'.pixels
                     /\ IF c.rectangle = Null
                        THEN ops' = << Op("fillRect", new) >>
                        ELSE /\ Len(ops') = Len(all) + 2
                             /\ ops'[1] = Op("clearRect", c.rectangle)
                             /\ \A k \in 1..Len(all) :
                                   ops'[k + 1] =
                                       Op("fillRect", create(all[k], c.viewport))
                             /\ ops'[Len(ops')] = Op("fillRect", new)
                             /\ ListCells(c.viewport) \subseteq el'.pixels
       ]_vars

\* C12 witness: while painting over a list with a rectangle, a second
\* mousemove has cleared a larger preview, repainted the list and painted a
\* smaller preview.
C12_Witness ==
    /\ last.op = "mousemove"
    /\ Painting # {}
    /\ Len(ops) >= 3
    /\ ops[1].op = "clearRect"
    /\ ops[2].op = "fillRect"
    /\ ops[Len(ops)] = Op("fillRect", listeners[1].rectangle)
    /\ ops[1].rect # listeners[1].rectangle
    /\ Cells(listeners[1].rectangle, el.width, el.height)
          \subseteq Cells(ops[1].rect, el.width, el.height)
    /\ Cells(ops[1].rect, el.width, el.height)
          # Cells(listeners[1].rectangle, el.width, el.height)

\* C13: a gesture starts painting only on mousedown, which then takes the
\* event as its anchor, and stops painting only on mouseup, which appends the
\* rectangle from the anchor to the release point; while it stays painting,
\* under mousedown and mousemove and whatever else happens, the anchor is
\* kept, so the appended rectangle starts at the first mousedown.
C13_GestureStateMachine ==
    [][ \A i \in 1..Len(listeners) :
          LET c == listeners[i]
              d == listeners'[i]
          IN  /\ (~c.painting /\ d.painting) =>
                    last'.op = "mousedown" /\ d.e = last'.pt
              /\ (c.painting /\ ~d.painting) =>
                    /\ last'.op = "mouseup"
                    /\ rectangles' =
                         Append(rectangles,
                                createRectangle(c.viewport, c.e, last'.pt))
              /\ (c.painting /\ last'.op # "mouseup") =>
                    d.painting /\ d.e = c.e
              /\ (~c.painting /\ last'.op # "mousedown") => ~d.painting
              /\ (~c.painting /\ last'.op = "mousedown") => d.painting
              /\ (c.painting /\ last'.op = "mouseup") => ~d.painting
      ]_vars

\* C13 witness: a second mousedown, at another point, has been received while
\* painting, and the anchor is still the first one.
C13_Witness ==
    /\ last.op = "mousedown"
    /\ Painting # {}
    /\ listeners[1].e # Null
    /\ listeners[1].e # last.pt

\* C14: the list is append-only and only a mouseup received while painting
\* changes it: that step makes the list one longer and keeps every earlier
\* entry in place, and every other step (mousedown, mousemove, mouseup while
\* idle, a render issued, fulfilled on the create or the update path or
\* rejected, hide, cancel) leaves the list as it was.  The length therefore
\* grows by one per mouseup received while painting and by nothing else.
C14_ListIsAppendOnly ==
    [][ IF last'.op = "mouseup" /\ Painting # {}
        THEN /\ Len(rectangles') = Len(rectangles) + 1
             /\ SubSeq(rectangles', 1, Len(rectangles)) = rectangles
        ELSE rectangles' = rectangles
      ]_vars

\* C14 witness: a mouseup has appended a second rectangle behind the one the
\* list held from the start, after a render took the update path.
C14_Witness ==
    /\ last.op = "mouseup"
    /\ issued = 2 /\ pending = {}
    /\ (el.width # width(listeners[1].viewport)
          \/ el.height # height(listeners[1].viewport))
    /\ rectangles \notin InitLists
    /\ Len(rectangles) = 2
    /\ << rectangles[1] >> \in InitLists
    /\ ops # <<>> /\ ops[1] = Op("push", rectangles[2])

\* The number of operations of the given name in a log.
Count(log, name) == Cardinality({ j \in 1..Len(log) : log[j].op = name })

\* C15: the canvas of a builder has exactly one set of mouse handlers: the
\* fulfilled render that creates the canvas registers them once, a fulfilled
\* render on a builder that has a canvas (the update path) registers none,
\* nothing else registers, and so a mouseup received while painting appends
\* exactly one rectangle, however many renders went before.
C15_HandlersInstalledOnce ==
    [][ /\ Len(listeners') = (IF canvas' = NoCanvas THEN 0 ELSE 1)
        /\ Count(ops', "addEventListener") =
              (IF last'.op = "fulfil" /\ ~_cancelled /\ canvas = NoCanvas
               THEN 1 ELSE 0)
        /\ (last'.op = "fulfil" /\ canvas # NoCanvas) =>
              Len(listeners') = Len(listeners)
        /\ (last'.op = "mouseup" /\ Painting # {}) =>
              /\ Count(ops', "push") = 1
              /\ Len(rectangles') = Len(rectangles) + 1
      ]_vars

\* C15 witness: on an empty list, after a second render was fulfilled on the
\* update path (the canvas has the size of another viewport than the one the
\* handlers were registered with), one gesture has appended one rectangle.
C15_Witness ==
    /\ last.op = "mouseup"
    /\ issued = 2 /\ pending = {}
    /\ Len(listeners) = 1
    /\ el.width # width(listeners[1].viewport)
    /\ Len(rectangles) = 1
    /\ Count(ops, "push") = 1
    /\ Len(ops) = 2 /\ ops[2].op = "fillRect"

\* The viewport of the render that sized the canvas last, as the builder
\* passes it to the layer.
CanvasViewport ==
    clone(CHOOSE v \in RenderViewports :
              width(v) = el.width /\ height(v) = el.height, TRUE)

\* C16: a mouseup received while painting converts the release and the
\* anchor to page space with the viewport of the latest fulfilled render,
\* and its repaint converts the rectangles of the list to canvas space with
\* that viewport, also when that render came after the one that created the
\* canvas.
C16_GestureUsesCurrentViewport ==
    [][ (last'.op = "mouseup" /\ Painting # {}) =>
          LET c == listeners[CHOOSE i \in Painting : TRUE]
              new == createRectangle(CanvasViewport, c.e, last'.pt)
              all == NonNull(rectangles')
          IN  /\ rectangles' = Append(rectangles, new)
              /\ \A k \in 1..Len(all) :
                    \E j \in 1..Len(ops') :
                       ops'[j] = Op("fillRect", create(all[k], CanvasViewport))
      ]_vars

\* C17: when every fetch is fulfilled and the builder was never cancelled,
\* then, in whatever order the fetches of the renders were fulfilled, once
\* none is in flight the canvas has the width and height of the viewport of
\* the render() call issued last.
C17_LatestViewportWins ==
    (issued >= 2 /\ pending = {} /\ ~_cancelled) =>
        /\ el.width = width(latest[1])
        /\ el.height = height(latest[1])
====
